---- MODULE Spec2Model ----
(***************************************************************************)
(* Employee Data Generator: the generator service (services/data_gen.py),  *)
(* the Excel exporter (services/excel_export.py), the Employee model       *)
(* (models/employee.py) and the main window's handlers                     *)
(* (ui/main_window.py).                                                    *)
(*                                                                         *)
(* Representation                                                          *)
(*   - money is an integer number of thousandths of a currency unit, so    *)
(*     that a value with more than 2 decimal digits is representable and   *)
(*     "rounded to 2 decimals" means "a multiple of 10";                   *)
(*   - a date is its number of days since 2020-01-01;                      *)
(*   - a path is the sequence of its components, a text the sequence of    *)
(*     its characters, an f-string the tuple of its pieces;                *)
(*   - an optional cell is a sequence of length 0 (None) or 1.             *)
(***************************************************************************)
EXTENDS Integers, Sequences, FiniteSets, TLC

VARIABLES
    employee_data,    \* MainWindow.employee_data / the caller's batch
    selected_folder,  \* MainWindow.selected_folder (<<>> is "")
    export_enabled,   \* export_button.isEnabled()
    count_input,      \* employee_count_input.text() as the last step read it
    status_label,     \* [text, error] set by _update_status
    message_box,      \* the QMessageBox the last step showed: [kind, title, text]
    handler,          \* the handler or service entry point the last step ran
    gen_call,         \* the generate_employees call of the last step
    exp_call,         \* the export_to_excel call of the last step
    files,            \* file system: path -> workbook stored in the file
    dirs,             \* file system: the directories that exist
    END_DATE,         \* utils.constants.END_DATE, date.today() at import
    today             \* the calendar date, what date.today() returns now

vars == <<employee_data, selected_folder, export_enabled, count_input,
          status_label, message_box, handler, gen_call, exp_call, files,
          dirs, END_DATE, today>>

uiVars == <<selected_folder, export_enabled, count_input, status_label,
            message_box>>

(***************************************************************************)
(* Bounds                                                                  *)
(***************************************************************************)
\* largest count passed to generate_employees by a direct caller
MaxCount == 2
\* days between START_DATE and the day the program was loaded
LoadDay == 1
\* longest batch handed to export_to_excel by a direct caller
MaxBatch == 3
\* days the program keeps running after it was loaded
MaxSessionDays == 1

(***************************************************************************)
(* utils/constants.py                                                      *)
(***************************************************************************)
Money(units) == units * 1000

DEPARTMENTS == <<"IT", "HR", "Operations", "Administration", "Finance">>
MIN_SALARY == Money(25000)
MAX_SALARY == Money(120000)
START_DATE == 0
MAX_EMPLOYEES == 1000
MIN_EMPLOYEES == 1
EXCEL_FILENAME == "employees.xlsx"
EMPLOYEES_SHEET_NAME == "Employees"
SUMMARY_SHEET_NAME == "Summary"

Range(s) == {s[i] : i \in DOMAIN s}

(***************************************************************************)
(* models/employee.py                                                      *)
(***************************************************************************)
Employee(emp_id, full_name, department, salary, hire_date) ==
    [emp_id |-> emp_id, full_name |-> full_name, department |-> department,
     salary |-> salary, hire_date |-> hire_date]

to_dictIdUnderSalary(emp) ==
    [emp_id |-> emp.salary, full_name |-> emp.full_name,
     department |-> emp.department, salary |-> emp.emp_id,
     hire_date |-> emp.hire_date]

\* Employee.to_dict: the dict of the five fields, keyed by field name
to_dict(emp) ==
    [emp_id |-> emp.emp_id, full_name |-> emp.full_name,
     department |-> emp.department, salary |-> emp.salary,
     hire_date |-> emp.hire_date]

(***************************************************************************)
(* services/data_gen.py                                                    *)
(***************************************************************************)
\* Faker().name(): a non-empty text
FakeNames == {"Dana Reyes"}

\* the random source while one record is generated: what it hands to
\* choice, to uniform and to randint, each draw a natural number the
\* function reduces to its own range
RandomDraws ==
    {[choice |-> 0, uniform |-> 0, randint |-> 0],
     [choice |-> 0, uniform |-> 3, randint |-> 1],
     [choice |-> 1, uniform |-> 1, randint |-> 2],
     [choice |-> 1, uniform |-> 2, randint |-> 3],
     [choice |-> 2, uniform |-> 0, randint |-> 4],
     [choice |-> 2, uniform |-> 3, randint |-> 5],
     [choice |-> 3, uniform |-> 1, randint |-> 0],
     [choice |-> 3, uniform |-> 2, randint |-> 1],
     [choice |-> 4, uniform |-> 0, randint |-> 2],
     [choice |-> 4, uniform |-> 2, randint |-> 3]}

\* random.uniform(a, b) on draw r: a sample point of [a, b], either end or,
\* next to an end, a value that is not a whole number of cents
uniform(a, b, r) == <<a, a + 4, b - 4, b>>[(r % 4) + 1]

randintPastEnd(a, b, r) == a + (r % (b - a + 2))

\* random.randint(a, b) on draw r: an integer of a..b
randint(a, b, r) == a + (r % (b - a + 1))

\* random.choice(seq) on draw r
choice(seq, r) == seq[(r % Len(seq)) + 1]

PyRound2NoRounding(x) == x

\* the builtin round(x, 2) on an exact value x: round half to even

PyRound2(x) ==
    LET lo == (x \div 10) * 10
        r  == x % 10
    IN  IF r < 5 THEN lo
        ELSE IF r > 5 THEN lo + 10
        ELSE IF (lo \div 10) % 2 = 0 THEN lo ELSE lo + 10

\* generate_random_date on draw r
generate_random_date(end_date, r) ==
    LET days_between == end_date - START_DATE
        random_days == randint(0, days_between, r)
    IN  START_DATE + random_days

\* generate_employee(emp_id): the records it can return
generate_employee(emp_id, end_date) ==
    {Employee(emp_id, n, choice(DEPARTMENTS, r.choice),
              PyRound2(uniform(MIN_SALARY, MAX_SALARY, r.uniform)),
              generate_random_date(end_date, r.randint)) :
        n \in FakeNames, r \in RandomDraws}

FirstIdZero(i) == i

\* the id given to the record at 0-based position i of the comprehension
IdOf(i) == i + 1

\* [generate_employee(i + 1) for i in range(count)]: the lists the
\* comprehension can build from its first n iterations; range(count) is
\* empty for count <= 0
RECURSIVE comprehension(_, _)
comprehension(n, end_date) ==
    IF n <= 0 THEN {<<>>}
    ELSE {Append(s, e) : s \in comprehension(n - 1, end_date),
                         e \in generate_employee(IdOf(n - 1), end_date)}

\* generate_employees(count): the lists it can return
generate_employees(count, end_date) == comprehension(count, end_date)

(***************************************************************************)
(* services/excel_export.py: the two frames                                *)
(***************************************************************************)
\* the code points of the department names, for Python's string order
CodePoints(str) ==
    CASE str = "IT" -> <<73, 84>>
      [] str = "HR" -> <<72, 82>>
      [] str = "Operations" ->
            <<79, 112, 101, 114, 97, 116, 105, 111, 110, 115>>
      [] str = "Administration" ->
            <<65, 100, 109, 105, 110, 105, 115, 116, 114, 97, 116, 105, 111,
              110>>
      [] str = "Finance" -> <<70, 105, 110, 97, 110, 99, 101>>

\* a < b for two str values: lexicographic on code points
RECURSIVE SeqLess(_, _)
SeqLess(a, b) ==
    IF b = <<>> THEN FALSE
    ELSE IF a = <<>> THEN TRUE
    ELSE IF a[1] # b[1] THEN a[1] < b[1]
    ELSE SeqLess(Tail(a), Tail(b))

StrLess(a, b) == SeqLess(CodePoints(a), CodePoints(b))

ColumnOrderSwapped ==
    <<"emp_id", "full_name", "salary", "department", "hire_date">>

\* the column list df[[...]] selects, in order
ColumnOrder == <<"emp_id", "full_name", "department", "salary", "hire_date">>

\* a DataFrame: its column names and its rows, each row in column order
DataFrame(columns, rows) == [columns |-> columns, rows |-> rows]

\* position of a column in a frame
ColumnIndex(df, name) ==
    CHOOSE j \in DOMAIN df.columns : df.columns[j] = name

\* _employees_to_dataframe
_employees_to_dataframe(employees) ==
    LET data == [i \in DOMAIN employees |-> to_dict(employees[i])]
    IN  DataFrame(ColumnOrder,
            [i \in DOMAIN data |->
                [j \in DOMAIN ColumnOrder |-> data[i][ColumnOrder[j]]]])

SelectIn(seq, S) == LET Keep(x) == x \in S IN SelectSeq(seq, Keep)

SourceOrder(S) == SelectIn(DEPARTMENTS, S)

\* ascending sort of a set of str values
RECURSIVE SortStrings(_)
SortStrings(S) ==
    IF S = {} THEN <<>>
    ELSE LET m == CHOOSE x \in S : \A y \in S \ {x} : StrLess(x, y)
         IN  <<m>> \o SortStrings(S \ {m})

NpRound2Floor(total, n, up) == (total \div (10 * n)) * 10

\* numpy's round(2) of the float mean total / n: the nearest multiple of a
\* cent; a mean half way between two cents goes up or down as the float
\* product lands (up tells which)

NpRound2(total, n, up) ==
    LET lo  == (total \div (10 * n)) * 10
        rem == total - lo * n
    IN  IF 2 * rem < 10 * n THEN lo
        ELSE IF 2 * rem > 10 * n THEN lo + 10
        ELSE IF up THEN lo + 10 ELSE lo

RECURSIVE SumSeq(_)
SumSeq(s) == IF s = <<>> THEN 0 ELSE s[1] + SumSeq(Tail(s))

SelectSeqBy(s, col, key) ==
    LET Keep(row) == row[col] = key IN SelectSeq(s, Keep)

\* df.groupby('department'): the distinct keys of the column
GroupKeys(df) ==
    LET c == ColumnIndex(df, "department")
    IN  {df.rows[i][c] : i \in DOMAIN df.rows}

\* the departments of a frame whose mean salary is half way between two
\* cents
HalfWayKeys(df) ==
    LET dep == ColumnIndex(df, "department")
        sal == ColumnIndex(df, "salary")
        Group(k) == SelectSeqBy(df.rows, dep, k)
        Total(k) == SumSeq([i \in DOMAIN Group(k) |-> Group(k)[i][sal]])
    IN  {k \in GroupKeys(df) :
            (Total(k) * 2) % (10 * Len(Group(k))) = 0
            /\ Total(k) % (10 * Len(Group(k))) # 0}

\* datetime.now().strftime('%Y-%m-%d %H:%M:%S') at the time of a call
Timestamps == {"2026-03-01 09:15:00", "2026-03-01 09:15:01"}

\* _create_summary_data; ties_up: the departments whose mean, when half way
\* between two cents, is rounded up
_create_summary_data(employees, timestamp, ties_up) ==
    LET df == _employees_to_dataframe(employees)
        dep == ColumnIndex(df, "department")
        sal == ColumnIndex(df, "salary")
        keys == SortStrings(GroupKeys(df))
        Group(k) == SelectSeqBy(df.rows, dep, k)
        Salaries(k) == [i \in DOMAIN Group(k) |-> Group(k)[i][sal]]
        summary ==
            [i \in DOMAIN keys |->
                <<keys[i],
                  <<NpRound2(SumSeq(Salaries(keys[i])), Len(Group(keys[i])),
                             keys[i] \in ties_up)>>,
                  Len(Group(keys[i]))>>]
        sorted == LET order == SortStrings({summary[i][1] : i \in DOMAIN summary})
                  IN  [i \in DOMAIN order |->
                          summary[CHOOSE j \in DOMAIN summary :
                                      summary[j][1] = order[i]]]
        timestamp_row == <<"Export Timestamp", <<>>, timestamp>>
    IN  DataFrame(<<"department", "avg_salary", "employee_count">>,
                  Append(sorted, timestamp_row))

(***************************************************************************)
(* services/excel_export.py: the file                                      *)
(***************************************************************************)
ospathjoinNameOnly(folder_path, name) == <<name>>

\* os.path.join(folder_path, name) and os.path.basename(path)
ospathjoin(folder_path, name) == Append(folder_path, name)
ospathbasename(path) == path[Len(path)]

\* DataFrame.to_excel(writer, sheet_name, index=False): a header row and the
\* frame's rows
Sheet(sheet_name, df) ==
    [name |-> sheet_name, header |-> df.columns, rows |-> df.rows]

\* what can go wrong inside the with block, by the step it hits: opening
\* the destination (permission denied, file locked), writing either sheet,
\* saving on close (disk full)
WriterFaults == {"none", "open", "employees", "summary", "close"}

\* the environments of one export_to_excel call: the fault that strikes, the
\* clock, the departments whose half-cent mean rounds up, and whether
\* ExcelWriter.__exit__ still manages to save the sheets written before the
\* fault (each matters to some faults only)
ExportEnvs(employees) ==
    LET keys == HalfWayKeys(_employees_to_dataframe(employees))
        now == CHOOSE t \in Timestamps : TRUE
    IN  [fault : {"none"}, timestamp : Timestamps, ties_up : SUBSET keys,
         saved : {TRUE}]
        \cup [fault : {"open", "employees", "close"}, timestamp : {now},
              ties_up : {{}}, saved : {FALSE}]
        \cup [fault : {"summary"}, timestamp : {now}, ties_up : {{}},
              saved : BOOLEAN]

AlwaysFalse(employees) == FALSE

\* `not employees`
NoEmployees(employees) == employees = <<>>

AnyDirectory(folder_path) == TRUE

\* pd.ExcelWriter(file_path) can open the destination only in a directory
\* that exists
DirectoryExists(folder_path) == folder_path \in dirs

Raised(error, fs) ==
    [outcome |-> "raised", value |-> <<>>, error |-> error, files |-> fs]

Returned(path, fs) ==
    [outcome |-> "returned", value |-> path, error |-> "", files |-> fs]

\* export_to_excel(employees, folder_path) in environment env: how the call
\* ends and the files it leaves.  ExcelWriter opens file_path for writing
\* when it is constructed (the file is created or truncated), collects the
\* sheets in memory, and saves them on leaving the with block, whether the
\* block ended normally or not.
export_to_excel(employees, folder_path, env) ==
    IF NoEmployees(employees) THEN Raised("ValueError", files)
    ELSE
      LET file_path == ospathjoin(folder_path, EXCEL_FILENAME)
          employees_df == _employees_to_dataframe(employees)
          summary_df ==
              _create_summary_data(employees, env.timestamp, env.ties_up)
          Holding(book) == (file_path :> book) @@ files
          first == Sheet(EMPLOYEES_SHEET_NAME, employees_df)
          second == Sheet(SUMMARY_SHEET_NAME, summary_df)
      IN  IF ~DirectoryExists(folder_path) \/ env.fault = "open"
            THEN Raised("OSError", files)
          ELSE IF env.fault = "employees"
            THEN Raised("Exception", Holding(<<>>))
          ELSE IF env.fault = "summary"
            THEN Raised("Exception",
                        Holding(IF env.saved THEN <<first>> ELSE <<>>))
          ELSE IF env.fault = "close"
            THEN Raised("OSError", Holding(<<>>))
          ELSE Returned(file_path, Holding(<<first, second>>))

(***************************************************************************)
(* ui/main_window.py                                                       *)
(***************************************************************************)
\* the names the module binds at its top level: its imports and its class
ModuleGlobals ==
    {"logging", "QMainWindow", "QWidget", "QVBoxLayout", "QHBoxLayout",
     "QLabel", "QLineEdit", "QPushButton", "QFileDialog", "QMessageBox",
     "Qt", "QFont", "QPalette", "QColor", "DEFAULT_EMPLOYEE_COUNT",
     "MainWindow"}

\* the names _export_to_excel binds itself
ExportLocals == {"self", "ExcelExporter", "exporter", "file_path",
                 "file_name", "e"}

\* a name read in a function resolves to a local or a module global
Resolves(name, locals) == name \in locals \/ name \in ModuleGlobals

Digits == <<"0", "1", "2", "3", "4", "5", "6", "7", "8", "9">>
IsDigit(c) == c \in Range(Digits)
DigitValue(c) == (CHOOSE i \in DOMAIN Digits : Digits[i] = c) - 1

\* str.strip()
RECURSIVE lstrip(_)
lstrip(t) == IF t # <<>> /\ t[1] = " " THEN lstrip(Tail(t)) ELSE t
RECURSIVE rstrip(_)
rstrip(t) ==
    IF t # <<>> /\ t[Len(t)] = " " THEN rstrip(SubSeq(t, 1, Len(t) - 1))
    ELSE t
strip(t) == rstrip(lstrip(t))

RECURSIVE DigitsValue(_)
DigitsValue(t) ==
    IF t = <<>> THEN 0
    ELSE 10 * DigitsValue(SubSeq(t, 1, Len(t) - 1)) + DigitValue(t[Len(t)])

\* int(text): <<value>>, or <<>> for ValueError
int(text) ==
    LET signed == text # <<>> /\ text[1] \in {"+", "-"}
        body == IF signed THEN Tail(text) ELSE text
    IN  IF body = <<>> \/ \E i \in DOMAIN body : ~IsDigit(body[i]) THEN <<>>
        ELSE IF signed /\ text[1] = "-" THEN <<0 - DigitsValue(body)>>
        ELSE <<DigitsValue(body)>>

\* what the user can type into the count field
CountTexts ==
    {<<>>, <<" ">>, <<"a", "b">>, <<"0">>, <<" ", "1">>,
     <<"1", "0", "0", "1">>}

\* the directories QFileDialog.getExistingDirectory can return; <<>> is the
\* empty string of a cancelled dialog
DialogResults == dirs \cup {<<>>}

Status(text, error) == [text |-> text, error |-> error]
NoBox == [kind |-> "none", title |-> "", text |-> <<>>]
MessageBox(kind, title, text) == [kind |-> kind, title |-> title, text |-> text]

NoGenCall == [count |-> 0, outcome |-> "none", value |-> <<>>]
NoExpCall == [folder |-> <<>>, n |-> 0, outcome |-> "none", value |-> <<>>,
              error |-> ""]

HasDataAlways(batch) == TRUE

\* `if self.employee_data:`, a list is true when it is not empty
HasData(batch) == batch # <<>>

OutOfRangeFromZero(count) == count < 0 \/ count > 1000

\* `count < 1 or count > 1000`
OutOfRange(count) == count < 1 \/ count > 1000

ExtendEmployeeData(held, returned) == held \o returned

\* `self.employee_data = generator.generate_employees(count)`: the attribute
\* is rebound to the list the call returned
AssignEmployeeData(held, returned) == returned

\* _select_folder
SelectFolder ==
    /\ \E folder \in DialogResults :
        IF folder # <<>>
        THEN /\ selected_folder' = folder
             /\ export_enabled' =
                    (IF HasData(employee_data) THEN TRUE ELSE export_enabled)
             /\ status_label' = Status(<<"Folder selected successfully">>, FALSE)
        ELSE UNCHANGED <<selected_folder, export_enabled, status_label>>
    /\ handler' = "_select_folder"
    /\ message_box' = NoBox
    /\ count_input' = <<>>
    /\ gen_call' = NoGenCall
    /\ exp_call' = NoExpCall
    /\ UNCHANGED <<employee_data, files, dirs, END_DATE, today>>

\* _generate_data, with text in the count field; faker_ok: whether the name
\* source works during the call
GenerateData ==
    /\ handler' = "_generate_data"
    /\ \E text \in CountTexts :
        LET count_text == strip(text)
            parsed == int(count_text)
            Warn(message) ==
                /\ message_box' =
                     MessageBox("warning", "Input Error", <<message>>)
                /\ gen_call' = NoGenCall
                /\ UNCHANGED <<employee_data, status_label, export_enabled>>
            Generate(count) ==
                \E faker_ok \in BOOLEAN :
                  IF faker_ok
                  THEN \E employees \in generate_employees(count, END_DATE) :
                         /\ gen_call' = [count |-> count,
                                         outcome |-> "returned",
                                         value |-> employees]
                         /\ employee_data' =
                              AssignEmployeeData(employee_data, employees)
                         /\ status_label' =
                              Status(<<"Successfully generated ", count,
                                       " employees">>, FALSE)
                         /\ export_enabled' =
                              (IF selected_folder # <<>> THEN TRUE
                               ELSE export_enabled)
                         /\ message_box' = NoBox
                  ELSE /\ gen_call' = [count |-> count, outcome |-> "raised",
                                       value |-> <<>>]
                       /\ status_label' =
                            Status(<<"Error generating data">>, TRUE)
                       /\ message_box' =
                            MessageBox("critical", "Generation Error",
                               <<"Failed to generate employee data:\n",
                                 "Exception">>)
                       /\ UNCHANGED <<employee_data, export_enabled>>
        IN  /\ count_input' = text
            /\ IF count_text = <<>>
                 THEN Warn("Please enter the number of employees to generate.")
               ELSE IF parsed = <<>>
                 THEN Warn("Please enter a valid number.")
               ELSE IF OutOfRange(parsed[1])
                 THEN Warn("Please enter a number between 1 and 1000.")
               ELSE Generate(parsed[1])
    /\ exp_call' = NoExpCall
    /\ UNCHANGED <<selected_folder, files, dirs, END_DATE, today>>

\* _export_to_excel, run by a click on the enabled export button
ExportToExcel ==
    /\ export_enabled
    /\ handler' = "_export_to_excel"
    /\ IF ~HasData(employee_data)
       THEN /\ message_box' = MessageBox("warning", "No Data",
                                <<"Please generate employee data first.">>)
            /\ exp_call' = NoExpCall
            /\ UNCHANGED <<status_label, files>>
       ELSE IF selected_folder = <<>>
       THEN /\ message_box' = MessageBox("warning", "No Folder",
                                <<"Please select an export folder first.">>)
            /\ exp_call' = NoExpCall
            /\ UNCHANGED <<status_label, files>>
       ELSE
         \E env \in ExportEnvs(employee_data) :
           LET r == export_to_excel(employee_data, selected_folder, env)
               Failed(message) ==
                   /\ status_label' = Status(<<"Export failed">>, TRUE)
                   /\ message_box' =
                        MessageBox("critical", "Export Error",
                           <<"Failed to export data to Excel:\n", message>>)
           IN  /\ exp_call' = [folder |-> selected_folder,
                               n |-> Len(employee_data),
                               outcome |-> r.outcome, value |-> r.value,
                               error |-> r.error]
               /\ files' = r.files
               /\ IF r.outcome = "raised" THEN Failed(r.error)
                  ELSE IF ~Resolves("os", ExportLocals)
                    THEN Failed("NameError")
                  ELSE
                    LET file_path == r.value
                        file_name == ospathbasename(file_path)
                    IN  /\ status_label' =
                              Status(<<"File '", file_name,
                                       "' exported successfully!">>, FALSE)
                        /\ message_box' =
                              MessageBox("information", "Export Complete",
                                 <<"Employee data has been exported to:\n",
                                   file_path, "\n\nGenerated ",
                                   Len(employee_data),
                                   " employee records.">>)
    /\ count_input' = <<>>
    /\ gen_call' = NoGenCall
    /\ UNCHANGED <<employee_data, selected_folder, export_enabled, dirs,
                   END_DATE, today>>

(***************************************************************************)
(* Direct callers of the two services (tests/test_gen.py, the core's two   *)
(* calls)                                                                  *)
(***************************************************************************)
\* generator.generate_employees(count)
CallGenerateEmployees ==
    /\ \E count \in -1 .. MaxCount :
        \E faker_ok \in BOOLEAN :
          IF faker_ok \/ count < 1
          THEN \E employees \in generate_employees(count, END_DATE) :
                 gen_call' = [count |-> count, outcome |-> "returned",
                              value |-> employees]
          ELSE gen_call' = [count |-> count, outcome |-> "raised",
                            value |-> <<>>]
    /\ handler' = "generate_employees"
    /\ UNCHANGED <<employee_data, files, dirs, exp_call, END_DATE, today>>
    /\ UNCHANGED uiVars

\* the directories a direct caller passes: one that exists, one that does not
ExportFolders == {<<"out">>, <<"out", "missing">>}

\* exporter.export_to_excel(employee_data, folder)
CallExportToExcel ==
    /\ \E folder \in ExportFolders :
        \E env \in ExportEnvs(employee_data) :
          LET r == export_to_excel(employee_data, folder, env)
          IN  /\ exp_call' = [folder |-> folder, n |-> Len(employee_data),
                              outcome |-> r.outcome, value |-> r.value,
                              error |-> r.error]
              /\ files' = r.files
    /\ handler' = "export_to_excel"
    /\ UNCHANGED <<employee_data, dirs, gen_call, END_DATE, today>>
    /\ UNCHANGED uiVars

(***************************************************************************)
(* Initial states and specifications                                       *)
(***************************************************************************)
NoFiles == [p \in {} |-> <<>>]

\* MainWindow.__init__ on a machine whose only export directory is /out
Init ==
    /\ employee_data = <<>>
    /\ selected_folder = <<>>
    /\ export_enabled = FALSE
    /\ count_input = <<>>
    /\ status_label = Status(<<"Ready to generate employee data">>, FALSE)
    /\ message_box = NoBox
    /\ handler = "__init__"
    /\ gen_call = NoGenCall
    /\ exp_call = NoExpCall
    /\ files = NoFiles
    /\ dirs = {<<"out">>}
    /\ END_DATE = START_DATE + LoadDay
    /\ today = END_DATE

Next == SelectFolder \/ GenerateData \/ ExportToExcel

\* the application: the main window's handlers
Spec == Init /\ [][Next]_vars

NextGen == CallGenerateEmployees

\* callers of the generator
SpecGen == Init /\ [][NextGen]_vars

\* midnight passes while the program runs
Tick ==
    /\ today < END_DATE + MaxSessionDays
    /\ today' = today + 1
    /\ handler' = "clock"
    /\ gen_call' = NoGenCall
    /\ UNCHANGED <<employee_data, files, dirs, exp_call, END_DATE>>
    /\ UNCHANGED uiVars

NextSession == CallGenerateEmployees \/ Tick

\* callers of the generator in a session that lasts past midnight
SpecSession == Init /\ [][NextSession]_vars

\* batches a caller can hand to the exporter: ids in generation order,
\* departments whose order in DEPARTMENTS is not their alphabetical order,
\* salaries one cent apart
ExportDepartments == {"IT", "HR", "Finance"}
ExportSalaries == {MIN_SALARY, MIN_SALARY + 10}

RECURSIVE Batches(_)
Batches(n) ==
    IF n = 0 THEN {<<>>}
    ELSE {Append(s, Employee(IdOf(n - 1), "Dana Reyes", d, x, START_DATE)) :
            s \in Batches(n - 1), d \in ExportDepartments,
            x \in ExportSalaries}

ExportBatches == UNION {Batches(n) : n \in 0 .. MaxBatch}

\* an employees.xlsx left in /out by an earlier export
OldBatch == <<Employee(1, "Dana Reyes", "IT", MAX_SALARY, START_DATE)>>
OldWorkbook ==
    <<Sheet(EMPLOYEES_SHEET_NAME, _employees_to_dataframe(OldBatch)),
      Sheet(SUMMARY_SHEET_NAME,
            _create_summary_data(OldBatch, "2026-02-28 17:00:00", {}))>>
OldPath == ospathjoin(<<"out">>, EXCEL_FILENAME)

InitExport ==
    /\ employee_data \in ExportBatches
    /\ files \in {NoFiles, OldPath :> OldWorkbook}
    /\ selected_folder = <<>>
    /\ export_enabled = FALSE
    /\ count_input = <<>>
    /\ status_label = Status(<<"Ready to generate employee data">>, FALSE)
    /\ message_box = NoBox
    /\ handler = "__init__"
    /\ gen_call = NoGenCall
    /\ exp_call = NoExpCall
    /\ dirs = {<<"out">>}
    /\ END_DATE = START_DATE + LoadDay
    /\ today = END_DATE

NextExport == CallExportToExcel

\* callers of the exporter
SpecExport == InitExport /\ [][NextExport]_vars

(***************************************************************************)
(* Properties                                                              *)
(***************************************************************************)
DirectGenerate == handler = "generate_employees"
DirectExport == handler = "export_to_excel"
ExportReturned == DirectExport /\ exp_call.outcome = "returned"

\* C1: whenever generate_employees(count) returns for a count >= 1, after
\* any number of earlier calls, the list has exactly count records and the
\* record at position i has id i (ids restart at 1 on every call).
C1_IdsSequential ==
    (DirectGenerate /\ gen_call.outcome = "returned" /\ gen_call.count >= 1)
    => /\ Len(gen_call.value) = gen_call.count
       /\ \A i \in DOMAIN gen_call.value : gen_call.value[i].emp_id = i

C1_Witness ==
    /\ DirectGenerate
    /\ gen_call.outcome = "returned"
    /\ gen_call.count = 2
    /\ Len(gen_call.value) = 2
    /\ gen_call.value[2].emp_id = 2

\* C2: generate_employees(count) with count <= 0 fails and returns no
\* batch.
C2_NonPositiveCountRaises ==
    (DirectGenerate /\ gen_call.count <= 0) => gen_call.outcome = "raised"

\* C3: export_to_excel on an empty record sequence raises the empty-input
\* error (ValueError) and leaves every file and directory as it was: no
\* employees.xlsx is created, an existing one is untouched.
C3_EmptyInputRaisesBeforeOpen ==
    [][(employee_data = <<>> /\ handler' = "export_to_excel")
        => /\ exp_call'.outcome = "raised"
           /\ exp_call'.error = "ValueError"
           /\ files' = files
           /\ dirs' = dirs]_vars

C3_Witness ==
    /\ DirectExport
    /\ employee_data = <<>>
    /\ exp_call.folder = <<"out">>
    /\ exp_call.error = "ValueError"
    /\ OldPath \in DOMAIN files
    /\ files[OldPath] = OldWorkbook

\* a complete employees.xlsx: the two sheets, Employees then Summary
CompleteBook(book) ==
    /\ Len(book) = 2
    /\ book[1].name = EMPLOYEES_SHEET_NAME
    /\ book[2].name = SUMMARY_SHEET_NAME

\* C4: a failing export_to_excel leaves no partial employees.xlsx: after a
\* call that raised, the files are those of before the call, or the
\* destination holds a complete two-sheet file.
C4_NoPartialFileOnFailure ==
    [][(handler' = "export_to_excel" /\ exp_call'.outcome = "raised")
        => \/ files' = files
           \/ LET path == ospathjoin(exp_call'.folder, EXCEL_FILENAME)
              IN  /\ path \in DOMAIN files'
                  /\ CompleteBook(files'[path])]_vars

\* C5: export_to_excel of a non-empty batch into a directory that does not
\* exist raises the I/O error (OSError) and creates no file and no
\* directory.
C5_MissingDirectoryRaises ==
    [][(employee_data # <<>> /\ handler' = "export_to_excel"
        /\ exp_call'.folder \notin dirs)
        => /\ exp_call'.outcome = "raised"
           /\ exp_call'.error = "OSError"
           /\ files' = files
           /\ dirs' = dirs]_vars

C5_Witness ==
    /\ DirectExport
    /\ employee_data # <<>>
    /\ exp_call.folder = <<"out", "missing">>
    /\ exp_call.folder \notin dirs
    /\ exp_call.error = "OSError"
    /\ files = NoFiles

\* C6: when the exporter called by the UI export action has written the
\* file and returned its path, the status says the file was exported
\* successfully and the completion message shows the returned path.
C6_ExportSuccessReported ==
    (handler = "_export_to_excel" /\ exp_call.outcome = "returned")
    => /\ status_label =
            Status(<<"File '", EXCEL_FILENAME, "' exported successfully!">>,
                   FALSE)
       /\ message_box.kind = "information"
       /\ message_box.text[2] = exp_call.value

\* C7: after a successful export the Employees sheet has the five columns
\* in the fixed order and one row per input record, in input order, row i
\* carrying the id, department and salary of record i.
C7_EmployeesSheetRoundTrip ==
    ExportReturned =>
        LET sheet == files[exp_call.value][1]
        IN  /\ sheet.name = EMPLOYEES_SHEET_NAME
            /\ sheet.header =
                 <<"emp_id", "full_name", "department", "salary", "hire_date">>
            /\ Len(sheet.rows) = Len(employee_data)
            /\ \A i \in DOMAIN employee_data :
                 /\ Len(sheet.rows[i]) = 5
                 /\ sheet.rows[i][1] = employee_data[i].emp_id
                 /\ sheet.rows[i][3] = employee_data[i].department
                 /\ sheet.rows[i][4] = employee_data[i].salary

C7_Witness ==
    /\ ExportReturned
    /\ Len(employee_data) = 3
    /\ employee_data[1].department # employee_data[2].department
    /\ employee_data[2].salary # employee_data[3].salary
    /\ Len(files[exp_call.value][1].rows) = 3

\* the department rows of a written Summary sheet: all rows but the last
DepartmentRows(sheet) == SubSeq(sheet.rows, 1, Len(sheet.rows) - 1)

\* C8: after a successful export the Summary sheet has exactly one row per
\* department occurring in the batch, in ascending order of department
\* name, followed by one last row: "Export Timestamp", an empty average,
\* and the timestamp string as the count.
C8_SummaryRows ==
    ExportReturned =>
        LET sheet == files[exp_call.value][2]
            rows == DepartmentRows(sheet)
            last == sheet.rows[Len(sheet.rows)]
            present == {employee_data[i].department : i \in DOMAIN employee_data}
        IN  /\ sheet.name = SUMMARY_SHEET_NAME
            /\ {rows[i][1] : i \in DOMAIN rows} = present
            /\ Len(rows) = Cardinality(present)
            /\ \A i, j \in DOMAIN rows : i < j => StrLess(rows[i][1], rows[j][1])
            /\ last[1] = "Export Timestamp"
            /\ last[2] = <<>>
            /\ last[3] \in Timestamps

C8_Witness ==
    /\ ExportReturned
    /\ Len(employee_data) = 3
    /\ employee_data[1].department = "IT"
    /\ employee_data[2].department = "HR"
    /\ employee_data[3].department = "IT"
    /\ Len(files[exp_call.value][2].rows) = 3

Abs(x) == IF x < 0 THEN 0 - x ELSE x

\* the salaries of the records of department k, in batch order
SalariesOf(batch, k) ==
    LET InK(emp) == emp.department = k
        group == SelectSeq(batch, InK)
    IN  [i \in DOMAIN group |-> group[i].salary]

\* C9: in every department row of a written Summary sheet the average is a
\* whole number of cents nearest to the mean salary of the department's
\* records, the count is the number of those records, and the counts add
\* up to the size of the batch.
C9_SummaryAverages ==
    ExportReturned =>
        LET rows == DepartmentRows(files[exp_call.value][2])
        IN  /\ \A i \in DOMAIN rows :
                 LET salaries == SalariesOf(employee_data, rows[i][1])
                     avg == rows[i][2][1]
                     n == Len(salaries)
                 IN  /\ Len(rows[i][2]) = 1
                     /\ rows[i][3] = n
                     /\ avg % 10 = 0
                     /\ 2 * Abs(avg * n - SumSeq(salaries)) <= 10 * n
            /\ SumSeq([i \in DOMAIN rows |-> rows[i][3]]) = Len(employee_data)

\* a department of three records whose mean is not a whole number of cents
\* and not half way between two
C9_Witness ==
    /\ ExportReturned
    /\ Len(employee_data) = 3
    /\ \A i \in 1..3 : employee_data[i].department = "HR"
    /\ SumSeq(SalariesOf(employee_data, "HR")) = 3 * MIN_SALARY + 20
    /\ files[exp_call.value][2].rows[1][2] = <<MIN_SALARY + 10>>

\* C10: every generated record's salary is a whole number of cents between
\* MIN_SALARY and MAX_SALARY, both included.
C10_SalaryRange ==
    \A i \in DOMAIN gen_call.value :
        /\ gen_call.value[i].salary % 10 = 0
        /\ MIN_SALARY <= gen_call.value[i].salary
        /\ gen_call.value[i].salary <= MAX_SALARY

\* a batch holding a salary at each end of the range
C10_Witness ==
    /\ DirectGenerate
    /\ gen_call.outcome = "returned"
    /\ Len(gen_call.value) = 2
    /\ gen_call.value[1].salary = MIN_SALARY
    /\ gen_call.value[2].salary = MAX_SALARY

\* C11: every record a generate_employees call returns has a hire date
\* between START_DATE and the calendar date of the call, both included, and
\* one of the five fixed departments.
C11_HireDateAndDepartment ==
    (DirectGenerate /\ gen_call.outcome = "returned")
    => \A i \in DOMAIN gen_call.value :
         /\ START_DATE <= gen_call.value[i].hire_date
         /\ gen_call.value[i].hire_date <= today
         /\ gen_call.value[i].department \in
              {"IT", "HR", "Operations", "Administration", "Finance"}

\* a record generated after midnight has passed, dated on the load day
C11_Witness ==
    /\ DirectGenerate
    /\ gen_call.outcome = "returned"
    /\ today > END_DATE
    /\ Len(gen_call.value) = 2
    /\ gen_call.value[1].hire_date = END_DATE
    /\ gen_call.value[2].hire_date = START_DATE

\* the hire dates a generate_employee call can return in the current state
PossibleHireDates ==
    {e.hire_date : e \in generate_employee(1, END_DATE)}

\* C12: at every generation call every day from START_DATE up to the
\* calendar date of the call is a possible hire date of a new record.
C12_EndDateIsDayOfCall ==
    DirectGenerate => \A d \in START_DATE .. today : d \in PossibleHireDates

\* C13: an export_to_excel(records, directory) call that returns gives back
\* exactly directory joined with employees.xlsx; the file at that path then
\* holds exactly two sheets, named Employees and Summary in that order; the
\* call creates no other file and leaves every other file as it was, so a
\* later export into the same directory overwrites that one file.
C13_ExportWritesOneFile ==
    [][(handler' = "export_to_excel" /\ exp_call'.outcome = "returned")
       => /\ exp_call'.value = Append(exp_call'.folder, "employees.xlsx")
          /\ DOMAIN files' = DOMAIN files \cup {exp_call'.value}
          /\ Len(files'[exp_call'.value]) = 2
          /\ files'[exp_call'.value][1].name = "Employees"
          /\ files'[exp_call'.value][2].name = "Summary"
          /\ \A p \in DOMAIN files \ {exp_call'.value} :
               files'[p] = files[p]]_vars

\* an export returned over the employees.xlsx an earlier export left, and
\* the directory holds that one file with the new batch
C13_Witness ==
    /\ ExportReturned
    /\ employee_data # OldBatch
    /\ Len(employee_data) = 2
    /\ DOMAIN files = {<<"out", "employees.xlsx">>}
    /\ files[<<"out", "employees.xlsx">>] # OldWorkbook
    /\ Len(files[<<"out", "employees.xlsx">>][1].rows) = 2

\* C14: a UI generate action whose generator call returns makes the held
\* batch exactly the returned batch, nothing of the earlier batch kept; a
\* generate action whose call raises, or that makes no call, and every
\* other UI action leave the held batch as it was.  So after any sequence
\* of actions the held batch is the one the latest successful generation
\* returned.
C14_BatchReplacedWholesale ==
    [][/\ (handler' = "_generate_data" /\ gen_call'.outcome = "returned")
            => employee_data' = gen_call'.value
       /\ (handler' = "_generate_data" /\ gen_call'.outcome # "returned")
            => employee_data' = employee_data
       /\ handler' # "_generate_data"
            => employee_data' = employee_data]_vars

\* a generation raised while a batch from an earlier generation was held
C14_Witness ==
    /\ handler = "_generate_data"
    /\ gen_call.outcome = "raised"
    /\ Len(employee_data) = 1
    /\ employee_data[1].emp_id = 1

\* count texts that are empty or blank, not an integer, below 1, above 1000
InvalidCountTexts ==
    {<<>>, <<" ">>, <<"a", "b">>, <<"0">>, <<"1", "0", "0", "1">>}

\* C15: a UI generate action calls the generator only with an integer
\* count of 1..1000; when the count text is empty, not an integer, below 1
\* or above 1000 the action shows a warning, makes no generator call and
\* leaves the held batch, the selected folder and the export button state
\* unchanged.
C15_CountValidated ==
    [][handler' = "_generate_data"
       => /\ gen_call'.outcome # "none"
               => (gen_call'.count >= 1 /\ gen_call'.count <= 1000)
          /\ count_input' \in InvalidCountTexts
               => /\ message_box'.kind = "warning"
                  /\ gen_call'.outcome = "none"
                  /\ employee_data' = employee_data
                  /\ selected_folder' = selected_folder
                  /\ export_enabled' = export_enabled]_vars

\* the count text 1001 was refused with a warning while a batch was held
\* and the export button was enabled
C15_Witness ==
    /\ handler = "_generate_data"
    /\ count_input = <<"1", "0", "0", "1">>
    /\ message_box.kind = "warning"
    /\ gen_call.outcome = "none"
    /\ employee_data # <<>>
    /\ export_enabled

\* the steps of _select_folder and of _export_to_excel, the latter with its
\* export_to_excel call returning or raising
FolderOrExportStep ==
    handler' \in {"_select_folder", "_export_to_excel"}

\* C16, as stated: folder selection and the UI export action (with the
\* export_to_excel call it makes, returning or raising) leave both the held
\* batch and the selected folder unchanged.
C16_BatchAndFolderUnchanged ==
    [][FolderOrExportStep
       => /\ employee_data' = employee_data
          /\ selected_folder' = selected_folder]_vars

\* C16, amended: folder selection and the UI export action (with the
\* export_to_excel call it makes, returning or raising) leave the held batch
\* unchanged, in length, order and every field; the export action leaves
\* the selected folder unchanged too, while folder selection either leaves
\* it unchanged or sets it to an existing directory; to_dict of every held
\* record has exactly the keys emp_id, full_name, department, salary,
\* hire_date, each with the record's value of that field.
C16_RecordsUnchanged ==
    [][/\ FolderOrExportStep => employee_data' = employee_data
       /\ handler' = "_export_to_excel"
            => selected_folder' = selected_folder
       /\ handler' = "_select_folder"
            => (selected_folder' = selected_folder
                \/ selected_folder' \in dirs)
       /\ \A i \in DOMAIN employee_data' :
            LET emp == employee_data'[i]
                dict == to_dict(emp)
            IN  /\ DOMAIN dict = {"emp_id", "full_name", "department",
                                  "salary", "hire_date"}
                /\ dict["emp_id"] = emp.emp_id
                /\ dict["full_name"] = emp.full_name
                /\ dict["department"] = emp.department
                /\ dict["salary"] = emp.salary
                /\ dict["hire_date"] = emp.hire_date]_vars

\* an export_to_excel call made by the UI raised and left a file behind,
\* and the held record and the folder are still there
C16_Witness ==
    /\ handler = "_export_to_excel"
    /\ exp_call.outcome = "raised"
    /\ DOMAIN files # {}
    /\ Len(employee_data) = 1
    /\ employee_data[1].emp_id = 1
    /\ selected_folder = <<"out">>

\* C17: in every state the UI can reach, the export button is enabled
\* exactly when the held batch is not empty and a folder has been selected;
\* and every export_to_excel call the UI makes is given a non-empty batch
\* and a non-empty folder path.
C17_ExportEnabledIffReady ==
    /\ export_enabled <=> (employee_data # <<>> /\ selected_folder # <<>>)
    /\ (handler = "_export_to_excel" /\ exp_call.outcome # "none")
         => (exp_call.n > 0 /\ exp_call.folder # <<>>)

\* the UI made an export_to_excel call: the button was enabled, with a
\* batch held and a folder selected
C17_Witness ==
    /\ handler = "_export_to_excel"
    /\ exp_call.outcome # "none"
    /\ export_enabled
    /\ Len(employee_data) = 1
    /\ selected_folder = <<"out">>
    /\ exp_call.n = 1

====
